---- MODULE Spec2Model ----
(***************************************************************************)
(* python-libfov: the CPython adapter fov.Settings (fov/fov.c) around the  *)
(* libfov sweep engine.  One Settings object, its two callback slots, the  *)
(* circle/beam entry points, the two adapter callbacks the engine calls,   *)
(* and the reference counts of the objects the adapter handles.            *)
(* The engine itself (fov_circle, fov_beam, fov_settings_init) is not part *)
(* of the sources; it is modelled from the design document.                *)
(***************************************************************************)
EXTENDS Integers, Sequences, FiniteSets, TLC

\* ------------------------------------------------------------------ bounds

\* Largest radius a caller passes; also the half-width of the window of the
\* (infinite) grid the engine is followed over.
MaxRadius == 2

\* Reference count of the map at entry when only the caller's variable and
\* the argument tuple hold it.
FewRefs == 2

\* Reference count at entry of a widely shared object (None, a small int).
ManyRefs == 1000

\* ------------------------------------------------------- program constants

\* "I" in PyArg_ParseTuple: a 32-bit C unsigned int, converted without
\* overflow check.  The value is kept as two 16-bit limbs <<hi, lo>>.
UIntLimb == 65536

\* The map of the README, as rows m[y][x].
Grid == << <<1, 0, 0, 0>>,
           <<1, 0, 1, 0>>,
           <<1, 0, 0, 0>>,
           <<1, 1, 1, 1>> >>

\* Largest coordinate inside the room of the usage example in fov.c.
RoomMax == 5

\* ---------------------------------------------------------- input domains

PyNone == "None"

\* Objects a caller may store as the opacity callback.
\*   bounds     the lambda of the usage example in fov.c
\*   grid       the lambda of the README: m[y][x]
\*   glyph      returns a non-integer object ("#") for a wall, 0 for floor
\*   uncallable an object that cannot be called
Callables == {"bounds", "grid", "glyph", "uncallable"}

Shapes == {"CIRCLE_PRECALCULATE", "SQUARE", "CIRCLE", "OCTAGON"}
CornerPeeks == {"NOPEEK", "PEEK"}
OpaqueApplies == {"APPLY", "NOAPPLY"}

\* FOV_EAST .. FOV_SOUTHEAST as unit vectors, counter-clockwise from east,
\* y growing downwards.
Directions == {"EAST", "NORTHEAST", "NORTH", "NORTHWEST",
               "WEST", "SOUTHWEST", "SOUTH", "SOUTHEAST"}

DirVec(d) ==
    CASE d = "EAST"      -> <<1, 0>>
      [] d = "NORTHEAST" -> <<1, -1>>
      [] d = "NORTH"     -> <<0, -1>>
      [] d = "NORTHWEST" -> <<-1, -1>>
      [] d = "WEST"      -> <<-1, 0>>
      [] d = "SOUTHWEST" -> <<-1, 1>>
      [] d = "SOUTH"     -> <<0, 1>>
      [] d = "SOUTHEAST" -> <<1, 1>>

\* The directions and the angle (in degrees) beams are called with.
BeamDirections == {"EAST", "SOUTHWEST"}
Angles == {90}

\* Origins of the two examples: README (1, 2) and fov.c (4, 4).
Origins == {<<1, 2>>, <<4, 4>>}

RadiusArgs == -1 .. MaxRadius

EntryRefs == {FewRefs, ManyRefs}

\* ------------------------------------------------------------- arithmetic

Abs(n) == IF n < 0 THEN -n ELSE n
Max(a, b) == IF a >= b THEN a ELSE b
Min(a, b) == IF a <= b THEN a ELSE b

\* p / q rounded to the nearest integer, halves away from zero (q > 0).
RoundDiv(p, q) ==
    IF p >= 0 THEN (2 * p + q) \div (2 * q)
              ELSE -((2 * (-p) + q) \div (2 * q))

\* ------------------------------------------------------ Python semantics

IntObj(n) == [tag |-> "int", val |-> n]
NonIntObj == [tag |-> "obj", val |-> 0]
Raised    == [tag |-> "raise", val |-> 0]

\* seq[i] of a Python list of length n: negative indexes count from the end,
\* anything else out of range raises IndexError (reported as -1 here).
PyIndex(i, n) ==
    IF 0 <= i /\ i < n THEN i + 1
    ELSE IF -n <= i /\ i < 0 THEN i + n + 1
    ELSE -1

\* lambda m, x, y: m[y][x]
GridLookup(x, y) ==
    LET r == PyIndex(y, Len(Grid))
    IN  IF r = -1 THEN Raised
        ELSE LET c == PyIndex(x, Len(Grid[r]))
             IN  IF c = -1 THEN Raised ELSE IntObj(Grid[r][c])

\* A wall of the README map; cells outside the map are floor.
IsWall(x, y) ==
    /\ 0 <= y /\ y < Len(Grid)
    /\ 0 <= x /\ x < Len(Grid[y + 1])
    /\ Grid[y + 1][x + 1] = 1

\* PyObject_CallObject(fn, (map, x, y)): the object returned, or Raised when
\* the call ends with an exception (NULL).
PyObject_CallObject(fn, x, y) ==
    CASE fn = "bounds" ->
           \* True and False are the integers 1 and 0
           IntObj(IF x < 0 \/ x > RoomMax \/ y < 0 \/ y > RoomMax THEN 1 ELSE 0)
      [] fn = "grid"   -> GridLookup(x, y)
      [] fn = "glyph"  -> IF IsWall(x, y) THEN NonIntObj ELSE IntObj(0)
      [] OTHER         -> Raised   \* TypeError: object is not callable

\* PyInt_AsLong: the integer, or -1 with an exception set when the object
\* has no integer value.
PyInt_AsLong(obj) == IF obj.tag = "int" THEN obj.val ELSE -1
PyInt_AsLongFails(obj) == obj.tag # "int"

\* (bool) of a C integer.
CBool(n) == n # 0

\* Reference counts; 0 is an object that has been deallocated, and stays so.
Py_INCREF(rc) == IF rc = 0 THEN 0 ELSE rc + 1
Py_DECREF(rc) == IF rc <= 1 THEN 0 ELSE rc - 1

\* "I": the Python integer reduced modulo 2^32, no range check.
ParseUnsigned(n) ==
    [hi |-> (n \div UIntLimb) % UIntLimb, lo |-> n % UIntLimb]

\* u >= k, for a small k >= 0.
UIntAtLeast(u, k) == u.hi > 0 \/ u.lo >= k

\* --------------------------------------------------------------- adapter

\* The map_wrapper of a call.
NewWrap == [orig_map |-> "map", threw_exception |-> FALSE]
NoWrap  == [orig_map |-> "-", threw_exception |-> FALSE]

\* The reference count of the map after one callback call: Py_BuildValue
\* takes a reference for the tuple, Py_DECREF(orig_map) drops one, and
\* Py_DECREF(arglist) frees the tuple, which drops its own.
AfterCall(rc) == Py_DECREF(Py_DECREF(Py_INCREF(rc)))

\* Variant: no early out for an unset callback (None is then called).
OpacityTestNoEarlyOut(w, fn, rc, obj) ==
    IF obj = Raised
    THEN [ret |-> FALSE, wrap |-> [w EXCEPT !.threw_exception = TRUE],
          mapRef |-> AfterCall(rc), err |-> TRUE, called |-> TRUE]
    ELSE [ret |-> CBool(PyInt_AsLong(obj)), wrap |-> w,
          mapRef |-> AfterCall(rc), err |-> PyInt_AsLongFails(obj),
          called |-> TRUE]

\* Variant: a raising callback is not recorded in the wrapper.
OpacityTestNoFlag(w, fn, rc, obj) ==
    IF fn = PyNone
    THEN [ret |-> FALSE, wrap |-> w, mapRef |-> rc, err |-> FALSE,
          called |-> FALSE]
    ELSE IF obj = Raised
    THEN [ret |-> FALSE, wrap |-> w, mapRef |-> AfterCall(rc), err |-> TRUE,
          called |-> TRUE]
    ELSE [ret |-> CBool(PyInt_AsLong(obj)), wrap |-> w,
          mapRef |-> AfterCall(rc), err |-> PyInt_AsLongFails(obj),
          called |-> TRUE]

\* Variant: the callback's answer is dropped, every cell is transparent.
OpacityTestDropsAnswer(w, fn, rc, obj) ==
    IF fn = PyNone
    THEN [ret |-> FALSE, wrap |-> w, mapRef |-> rc, err |-> FALSE,
          called |-> FALSE]
    ELSE IF obj = Raised
    THEN [ret |-> FALSE, wrap |-> [w EXCEPT !.threw_exception = TRUE],
          mapRef |-> AfterCall(rc), err |-> TRUE, called |-> TRUE]
    ELSE [ret |-> FALSE, wrap |-> w, mapRef |-> AfterCall(rc),
          err |-> PyInt_AsLongFails(obj), called |-> TRUE]

\* _pyfov_opacity_test_function(map, x, y), given the stored callback fn,
\* the reference count rc of the caller's map and the outcome obj of
\* PyObject_CallObject.  ret is what the engine is told.
pyfov_opacity_test_function(w, fn, rc, obj) ==
    IF fn = PyNone
    THEN [ret |-> FALSE, wrap |-> w, mapRef |-> rc, err |-> FALSE,
          called |-> FALSE]
    ELSE LET built == Py_INCREF(rc)        \* Py_BuildValue("(Oii)", ...)
             afterMap == Py_DECREF(built)  \* Py_DECREF(orig_map)
             afterArgs == Py_DECREF(afterMap)
                                           \* Py_DECREF(arglist): the tuple
                                           \* dies and releases its items
         IN  IF obj = Raised
             THEN [ret |-> FALSE,
                   wrap |-> [w EXCEPT !.threw_exception = TRUE],
                   mapRef |-> afterArgs, err |-> TRUE, called |-> TRUE]
             ELSE [ret |-> CBool(PyInt_AsLong(obj)), wrap |-> w,
                   mapRef |-> afterArgs, err |-> PyInt_AsLongFails(obj),
                   called |-> TRUE]

\* _pyfov_apply_lighting_function(map, x, y, dx, dy, src).
pyfov_apply_lighting_function(w, fn, rc, src, obj) ==
    IF fn = PyNone
    THEN [wrap |-> w, mapRef |-> rc, srcRef |-> src, err |-> FALSE,
          called |-> FALSE]
    ELSE LET afterMap == Py_DECREF(Py_DECREF(Py_INCREF(rc)))
             afterSrc == Py_DECREF(Py_DECREF(Py_INCREF(src)))
         IN  IF obj = Raised
             THEN [wrap |-> [w EXCEPT !.threw_exception = TRUE],
                   mapRef |-> afterMap, srcRef |-> afterSrc, err |-> TRUE,
                   called |-> TRUE]
             ELSE [wrap |-> w, mapRef |-> afterMap, srcRef |-> afterSrc,
                   err |-> FALSE, called |-> TRUE]

\* Variant: the wrapper's flag is not consulted.
SweepResultAlwaysNone(w) == "None"

\* The value circle and beam return once the engine is back.
SweepResult(w) == IF w.threw_exception THEN "NULL" ELSE "None"

\* Variant: source_x and source_y change places.
EngineArgsSwapped(kind, source_x, source_y, radius, direction, angle) ==
    [kind |-> kind, source_x |-> source_y, source_y |-> source_x,
     radius |-> ParseUnsigned(radius), direction |-> direction,
     angle |-> angle]

\* What the adapter hands to fov_circle / fov_beam.
EngineArgs(kind, source_x, source_y, radius, direction, angle) ==
    [kind |-> kind, source_x |-> source_x, source_y |-> source_y,
     radius |-> ParseUnsigned(radius), direction |-> direction,
     angle |-> angle]

NoArgs == [kind |-> "-", source_x |-> 0, source_y |-> 0,
           radius |-> ParseUnsigned(0), direction |-> "EAST", angle |-> 0]

\* The memory of the map: "live", or released while the caller still holds
\* it, and then either "stale" (it still reads as before) or "garbled" (it
\* has been reused, and a callback reading it raises).
MapRelease(before, after, mem) ==
    IF before > 0 /\ after = 0 THEN {"stale", "garbled"} ELSE {mem}

\* Outcomes of a callback that is handed the map: any use of released
\* memory may also end the process.
MapUse(fn, mem) ==
    IF fn = PyNone \/ mem = "live" THEN {"ok"}
    ELSE IF mem = "stale" THEN {"ok", "crash"}
    ELSE {"raise", "crash"}

\* ---------------------------------------------------------------- engine

\* The offsets from the origin that are followed.
Window == (-MaxRadius .. MaxRadius) \X (-MaxRadius .. MaxRadius)

Cheb(c) == Max(Abs(c[1]), Abs(c[2]))

\* The boundary test of each shape.
InShape(shape, r, c) ==
    /\ UIntAtLeast(r, Cheb(c))
    /\ \/ r.hi > 0
       \/ shape = "SQUARE"
       \/ /\ shape \in {"CIRCLE", "CIRCLE_PRECALCULATE"}
          /\ 4 * (c[1] * c[1] + c[2] * c[2]) <= (2 * r.lo + 1) * (2 * r.lo + 1)
       \/ /\ shape = "OCTAGON"
          /\ 2 * Cheb(c) + Min(Abs(c[1]), Abs(c[2])) <= 2 * r.lo

\* The sector of a beam: direction +- angle / 2.
InSector(a, c) ==
    \/ a.kind = "circle"
    \/ c = <<0, 0>>
    \/ a.angle >= 360
    \/ LET v == DirVec(a.direction)
           dot == c[1] * v[1] + c[2] * v[2]
           cross == Abs(c[1] * v[2] - c[2] * v[1])
       IN  \/ a.angle = 180 /\ dot >= 0
           \/ a.angle = 90 /\ cross <= dot

\* The i-th cell of the sightline from the origin to c.
LinePt(c, i) ==
    <<RoundDiv(i * c[1], Cheb(c)), RoundDiv(i * c[2], Cheb(c))>>

\* The cells strictly between the origin and c on its sightline.
Sightline(c) == {LinePt(c, i) : i \in 1 .. Cheb(c) - 1}

\* The corners the sightline to c passes: the pairs of orthogonal neighbours
\* of each of its diagonal steps.
Corners(c) ==
    {<< <<LinePt(c, i + 1)[1], LinePt(c, i)[2]>>,
        <<LinePt(c, i)[1], LinePt(c, i + 1)[2]>> >> :
       i \in {j \in 0 .. Cheb(c) - 1 :
                /\ LinePt(c, j)[1] # LinePt(c, j + 1)[1]
                /\ LinePt(c, j)[2] # LinePt(c, j + 1)[2]}}

\* Both, for every offset of the window.
Geometry ==
    [c \in Window |-> [line |-> Sightline(c), corners |-> Corners(c)]] @@ <<>>

\* c is in the shadow of a cell found opaque: one on its sightline, or a
\* corner the sightline passes (either neighbour without corner peeking, both
\* with it).
Blocked(c, known, peek) ==
    \/ Geometry[c].line \cap known # {}
    \/ \E n \in Geometry[c].corners :
         IF peek = "NOPEEK" THEN n[1] \in known \/ n[2] \in known
                            ELSE n[1] \in known /\ n[2] \in known

\* Rings outward, row by row within a ring.
Key(c) ==
    Cheb(c) * (2 * MaxRadius + 1) * (2 * MaxRadius + 1)
    + (c[2] + MaxRadius) * (2 * MaxRadius + 1) + (c[1] + MaxRadius)

KeyOf == [c \in Window |-> Key(c)] @@ <<>>

NoCell == <<0, 0>>

\* The cells a sweep may visit: inside the shape and the sector.
Candidates(a, st) ==
    {d \in Window : InShape(st.shape, a.radius, d) /\ InSector(a, d)}

\* The next cell the sweep visits after c, NoCell when there is none.
NextCell(a, st, c, known) ==
    LET todo == {d \in Candidates(a, st) :
                   /\ KeyOf[d] > KeyOf[c]
                   /\ ~Blocked(d, known, st.corner_peek)}
    IN  IF todo = {} THEN NoCell
        ELSE CHOOSE d \in todo : \A e \in todo : KeyOf[d] <= KeyOf[e]

\* The sweep goes on outside the window.
Beyond(a) == UIntAtLeast(a.radius, MaxRadius + 1)

\* ----------------------------------------------------------------- state

VARIABLES
    opacity_test_function,    \* pyfov_Settings.opacity_test_function
    apply_lighting_function,  \* pyfov_Settings.apply_lighting_function
    settings,                 \* pyfov_Settings.settings (fov_settings_type)
    pc,                       \* "idle", "test", "light", "beyond", "crashed"
    args,                     \* the arguments of the call in progress
    wrap,                     \* its map_wrapper
    cell,                     \* the offset the engine is at
    opaque,                   \* offsets the engine has been told are opaque
    mapRef,                   \* ob_refcnt of the caller's map
    mapMem,                   \* "live", "stale" or "garbled"
    srcRef,                   \* ob_refcnt of the caller's source
    result,                   \* what the last call returned: "None", "NULL"
    pyerr,                    \* an exception is set in the interpreter
    obs                       \* what an observer of the calls has seen

vars == <<opacity_test_function, apply_lighting_function, settings, pc, args,
          wrap, cell, opaque, mapRef, mapMem, srcRef, result, pyerr, obs>>

\* Nothing observed yet: no call has been made.
NoObs ==
    [op |-> "init", arg |-> PyNone,   \* the last operation and its argument
     ran |-> FALSE,            \* the last call got as far as the engine
     sourceArg |-> <<0, 0>>,   \* the origin and
     radiusArg |-> 0,          \* the radius it was passed
     entryMap |-> 0,           \* reference counts when it was entered
     entrySrc |-> 0,
     lit |-> {},               \* <<x, y, dx, dy>> reported by the engine
     answered |-> {},          \* <<x, y>> the callback called opaque
     opacityCalls |-> 0,       \* calls of the opacity callback and of the
     lightingCalls |-> 0,      \* lighting callback: 0, 1, or 2 for more
     faulted |-> FALSE,        \* a callback raised during the call
     callAfterFault |-> FALSE, \* a callback was called after one raised
     lateReport |-> FALSE,     \* a cell was queried or reported although a
                               \* closer cell of its sightline was opaque
     badAnswer |-> FALSE,      \* the engine was told opaque without the
                               \* callback returning a nonzero integer
     convFailed |-> FALSE,     \* a returned object had no integer value
     earlierFault |-> FALSE]   \* a callback raised during an earlier call

\* The record of a fresh operation op(arg): what earlier calls leave behind
\* is only whether one of them faulted.
Fresh(op, arg) ==
    [NoObs EXCEPT !.op = op, !.arg = arg,
                  !.earlierFault = obs.earlierFault \/ obs.faulted]

Idle(s) == s \in {"idle"}

\* pyfov_Settings_init, with the engine's defaults (fov_settings_init).
fov_settings_init ==
    [shape |-> "CIRCLE", corner_peek |-> "NOPEEK", opaque_apply |-> "NOAPPLY"]

Init ==
    /\ opacity_test_function = PyNone
    /\ apply_lighting_function = PyNone
    /\ settings = fov_settings_init
    /\ pc = "idle"
    /\ args = NoArgs
    /\ wrap = NoWrap
    /\ cell = NoCell
    /\ opaque = {}
    /\ mapRef = 0
    /\ mapMem = "live"
    /\ srcRef = 0
    /\ result = "-"
    /\ pyerr = FALSE
    /\ obs = NoObs

\* The call frame of a finished call is gone.
NoFrame ==
    /\ pc' = "idle"
    /\ args' = NoArgs
    /\ wrap' = NoWrap
    /\ cell' = NoCell
    /\ opaque' = {}
    /\ mapRef' = 0
    /\ mapMem' = "live"
    /\ srcRef' = 0

\* ------------------------------------------------------------ properties

\* s.opacity_test_function = cb
pyfov_Settings_set_opacity_test_function ==
    /\ Idle(pc)
    /\ \E cb \in Callables \cup {PyNone} :
         /\ opacity_test_function' = cb          \* ASSIGN_REFS
         /\ obs' = Fresh("set_opacity_test", cb)
    /\ result' = "None"
    /\ pyerr' = FALSE
    /\ NoFrame
    /\ UNCHANGED <<apply_lighting_function, settings>>

\* s.apply_lighting_function = cb: the type has no such attribute
\* (pyfov_Settings_properties lists opacity_test_function only), so the
\* assignment raises AttributeError and stores nothing.
pyfov_Settings_set_apply_lighting_function ==
    /\ Idle(pc)
    /\ \E cb \in Callables \cup {PyNone} :
         obs' = Fresh("set_apply_lighting", cb)
    /\ result' = "NULL"
    /\ pyerr' = TRUE
    /\ NoFrame
    /\ UNCHANGED <<opacity_test_function, apply_lighting_function, settings>>

\* The engine's own setters of shape, corner_peek and opaque_apply.
fov_settings_set_shape ==
    /\ Idle(pc)
    /\ \E v \in Shapes :
         /\ settings' = [settings EXCEPT !.shape = v]
         /\ obs' = Fresh("set_shape", v)
    /\ NoFrame
    /\ UNCHANGED <<opacity_test_function, apply_lighting_function, result,
                   pyerr>>

fov_settings_set_corner_peek ==
    /\ Idle(pc)
    /\ \E v \in CornerPeeks :
         /\ settings' = [settings EXCEPT !.corner_peek = v]
         /\ obs' = Fresh("set_corner_peek", v)
    /\ NoFrame
    /\ UNCHANGED <<opacity_test_function, apply_lighting_function, result,
                   pyerr>>

fov_settings_set_opaque_apply ==
    /\ Idle(pc)
    /\ \E v \in OpaqueApplies :
         /\ settings' = [settings EXCEPT !.opaque_apply = v]
         /\ obs' = Fresh("set_opaque_apply", v)
    /\ NoFrame
    /\ UNCHANGED <<opacity_test_function, apply_lighting_function, result,
                   pyerr>>

\* ----------------------------------------------------------------- calls

\* A call whose arguments PyArg_ParseTuple rejects (the README's call passes
\* four arguments where "OOiiI" takes five) returns NULL at once.
ParseFailure(op) ==
    /\ obs' = Fresh(op, PyNone)
    /\ result' = "NULL"
    /\ pyerr' = TRUE
    /\ NoFrame

\* The engine is entered: wrap is initialised and the sweep starts at the
\* origin, which is visible whatever it is made of.
EnterEngine(op, a, source, radiusArg, rc) ==
    /\ obs' = [Fresh(op, PyNone) EXCEPT !.ran = TRUE,
                                        !.sourceArg = source,
                                        !.radiusArg = radiusArg,
                                        !.entryMap = rc,
                                        !.entrySrc = ManyRefs]
    /\ wrap' = NewWrap
    /\ args' = a
    /\ pc' = "light"
    /\ cell' = <<0, 0>>
    /\ opaque' = {}
    /\ mapRef' = rc
    /\ mapMem' = "live"
    /\ srcRef' = ManyRefs
    /\ result' = "-"
    /\ pyerr' = FALSE

\* s.circle(map, src, source_x, source_y, radius)
pyfov_Settings_circle ==
    /\ Idle(pc)
    /\ \/ ParseFailure("circle")
       \/ \E o \in Origins, r \in RadiusArgs, rc \in EntryRefs :
            EnterEngine("circle",
                        EngineArgs("circle", o[1], o[2], r, "EAST", 0),
                        o, r, rc)
    /\ UNCHANGED <<opacity_test_function, apply_lighting_function, settings>>

\* s.beam(map, src, source_x, source_y, radius, direction, angle)
pyfov_Settings_beam ==
    /\ Idle(pc)
    /\ \/ ParseFailure("beam")
       \/ \E o \in Origins, r \in RadiusArgs, rc \in EntryRefs,
             d \in BeamDirections, ang \in Angles :
            EnterEngine("beam",
                        EngineArgs("beam", o[1], o[2], r, d, ang),
                        o, r, rc)
    /\ UNCHANGED <<opacity_test_function, apply_lighting_function, settings>>

\* The absolute coordinates of an offset.
At(c) == <<args.source_x + c[1], args.source_y + c[2]>>

\* After cell c the engine goes on to the next cell; when there is none it
\* returns and so does the call, with SweepResult.
Continue(c, op, w) ==
    LET n == NextCell(args, settings, c, op)
    IN  /\ opaque' = op
        /\ wrap' = w
        /\ IF n # NoCell
           THEN pc' = "test" /\ cell' = n /\ result' = result
           ELSE IF Beyond(args)
           THEN pc' = "beyond" /\ cell' = c /\ result' = result
           ELSE pc' = "idle" /\ cell' = c /\ result' = SweepResult(w)

\* How many callback calls an observer counts: 0, 1, or 2 for more.
Counted(n, called) == IF called THEN Min(n + 1, 2) ELSE n

\* The engine asks whether the cell it is at is opaque.
OpacityTest ==
    /\ pc = "test"
    /\ \E use \in MapUse(opacity_test_function, mapMem) :
         IF use = "crash"
         THEN /\ pc' = "crashed"
              /\ UNCHANGED <<cell, opaque, wrap, mapRef, mapMem, result,
                             pyerr, obs>>
         ELSE
           LET xy == At(cell)
               obj == IF use = "raise" THEN Raised
                      ELSE PyObject_CallObject(opacity_test_function,
                                               xy[1], xy[2])
               out == pyfov_opacity_test_function(wrap, opacity_test_function,
                                                  mapRef, obj)
               op == IF out.ret THEN opaque \cup {cell} ELSE opaque
               saidOpaque == out.called /\ obj.tag = "int" /\ obj.val # 0
           IN  /\ mapRef' = out.mapRef
               /\ mapMem' \in MapRelease(mapRef, out.mapRef, mapMem)
               /\ pyerr' = (pyerr \/ out.err)
               /\ obs' = [obs EXCEPT
                    !.answered = IF saidOpaque THEN @ \cup {xy} ELSE @,
                    !.opacityCalls = Counted(@, out.called),
                    !.faulted = @ \/ (out.called /\ obj = Raised),
                    !.callAfterFault = @ \/ (obs.faulted /\ out.called),
                    !.lateReport = @ \/ \E b \in Geometry[cell].line :
                                          At(b) \in obs.answered,
                    !.badAnswer = @ \/ (out.ret # saidOpaque),
                    !.convFailed = @ \/ (out.called /\ obj # Raised
                                         /\ PyInt_AsLongFails(obj))]
               /\ IF out.ret /\ settings.opaque_apply = "NOAPPLY"
                  THEN Continue(cell, op, out.wrap)
                  ELSE /\ pc' = "light"
                       /\ opaque' = op
                       /\ wrap' = out.wrap
                       /\ UNCHANGED <<cell, result>>
    /\ UNCHANGED <<opacity_test_function, apply_lighting_function, settings,
                   args, srcRef>>

\* The engine reports the cell it is at as lit.
ApplyLighting ==
    /\ pc = "light"
    /\ \E use \in MapUse(apply_lighting_function, mapMem) :
         IF use = "crash"
         THEN /\ pc' = "crashed"
              /\ UNCHANGED <<cell, opaque, wrap, mapRef, mapMem, srcRef,
                             result, pyerr, obs>>
         ELSE
           LET xy == At(cell)
               obj == IF use = "raise" THEN Raised
                      ELSE PyObject_CallObject(apply_lighting_function,
                                               xy[1], xy[2])
               out == pyfov_apply_lighting_function(
                          wrap, apply_lighting_function, mapRef, srcRef, obj)
           IN  /\ mapRef' = out.mapRef
               /\ mapMem' \in MapRelease(mapRef, out.mapRef, mapMem)
               /\ srcRef' = out.srcRef
               /\ pyerr' = (pyerr \/ out.err)
               /\ obs' = [obs EXCEPT
                    !.lit = @ \cup {<<xy[1], xy[2], cell[1], cell[2]>>},
                    !.lightingCalls = Counted(@, out.called),
                    !.faulted = @ \/ (out.called /\ obj = Raised),
                    !.callAfterFault = @ \/ (obs.faulted /\ out.called),
                    !.lateReport = @ \/ \E b \in Geometry[cell].line :
                                          At(b) \in obs.answered]
               /\ Continue(cell, opaque, out.wrap)
    /\ UNCHANGED <<opacity_test_function, apply_lighting_function, settings,
                   args>>

Next ==
    \/ pyfov_Settings_set_opacity_test_function
    \/ pyfov_Settings_set_apply_lighting_function
    \/ fov_settings_set_shape
    \/ fov_settings_set_corner_peek
    \/ fov_settings_set_opaque_apply
    \/ pyfov_Settings_circle
    \/ pyfov_Settings_beam
    \/ OpacityTest
    \/ ApplyLighting

Spec == Init /\ [][Next]_vars

\* ---------------------------------------------------------------- claims

\* A circle or beam call has run the engine and returned.
Returned == pc = "idle" /\ obs.ran

\* The map was never released during the call.
MapAlive == mapMem = "live" /\ mapRef > 0

\* C1: a call during which a callback raised returns the failure value NULL,
\* never None.
C1_FaultReported ==
    (Returned /\ obs.faulted) => result = "NULL"

C1_Witness ==
    /\ Returned /\ obs.faulted /\ result = "NULL"
    /\ MapAlive /\ obs.opacityCalls = 2

\* C2: once a callback has raised, no callback is called again before the
\* call returns.  Stated for the calls with a radius >= 0 whose map is never
\* released, so that nothing but the fault handling decides it.
C2_NoCallAfterFault ==
    (obs.radiusArg >= 0 /\ MapAlive) => ~obs.callAfterFault

\* C3: with the opacity callback unset every query is answered transparent
\* and no opacity callback is called; with the lighting callback unset no
\* lighting callback is called; with both unset the call never faults and
\* returns None.
C3_UnsetIsPermissive ==
    /\ (obs.ran /\ opacity_test_function = PyNone)
         => opaque = {} /\ obs.opacityCalls = 0
    /\ (obs.ran /\ apply_lighting_function = PyNone)
         => obs.lightingCalls = 0
    /\ (obs.ran /\ opacity_test_function = PyNone
               /\ apply_lighting_function = PyNone)
         => /\ ~obs.faulted /\ ~wrap.threw_exception /\ ~pyerr
            /\ pc # "crashed"
            /\ Returned => result = "None"

C3_Witness ==
    /\ Returned /\ opacity_test_function = PyNone
    /\ apply_lighting_function = PyNone
    /\ result = "None" /\ Cardinality(obs.lit) > 1

\* C4: a call with a negative radius is rejected: it returns NULL and the
\* engine is not entered.
C4_NegativeRadiusRejected ==
    (obs.op \in {"circle", "beam"} /\ obs.radiusArg < 0)
        => ~obs.ran /\ result = "NULL"

\* C5: after set_opacity_test(c) the stored opacity callback is c and after
\* set_apply_lighting(c) the stored lighting callback is c.
C5_SettersStore ==
    /\ obs.op = "set_opacity_test" => opacity_test_function = obs.arg
    /\ obs.op = "set_apply_lighting" => apply_lighting_function = obs.arg

\* The block of Chebyshev radius r around <<x, y>>, as lighting reports.
Block(x, y, r) ==
    {<<x + dx, y + dy, dx, dy>> : dx \in -r .. r, dy \in -r .. r}

C7_ShadowedNeverLit ==
    settings.corner_peek = "NOPEEK" =>
        /\ ~obs.lateReport
        /\ \A t \in obs.lit :
             \A b \in Geometry[<<t[3], t[4]>>].line :
               <<t[1] - t[3] + b[1], t[2] - t[4] + b[2]>> \notin obs.answered

C7_Witness ==
    /\ Returned /\ settings.corner_peek = "NOPEEK" /\ MapAlive
    /\ obs.answered # {}
    /\ \E c \in Candidates(args, settings) :
         /\ Geometry[c].line \cap opaque # {}
         /\ <<At(c)[1], At(c)[2], c[1], c[2]>> \notin obs.lit

\* C8: the reference counts of the map and of the source are, during and
\* after a call, what they were when it was entered.  Stated for the calls
\* with a radius >= 0.
C8_RefsBalanced ==
    (obs.ran /\ obs.radiusArg >= 0)
        => mapRef = obs.entryMap /\ srcRef = obs.entrySrc

\* C9: the wrapper's flag is set exactly when a callback has raised during
\* this same call, whatever happened in earlier calls, and a call returns
\* None exactly when no callback raised during it.
C9_FlagPerCall ==
    obs.ran =>
        /\ wrap.threw_exception <=> obs.faulted
        /\ Returned => (result = "None" <=> ~obs.faulted)

C9_Witness ==
    /\ Returned /\ result = "None" /\ obs.earlierFault
    /\ obs.opacityCalls = 2 /\ MapAlive

\* C10: the engine is told opaque exactly when the callback returned a value
\* with a nonzero integer value; a raising callback sets the flag; and a call
\* during which a returned value had no integer value returns NULL.  Stated
\* for the calls with a radius >= 0 whose map is never released.
C10_AnswerConversion ==
    (obs.radiusArg >= 0 /\ MapAlive) =>
        /\ ~obs.badAnswer
        /\ obs.faulted => wrap.threw_exception
        /\ (Returned /\ obs.convFailed) => result = "NULL"

====
